---- MODULE Spec2Model ----
(***************************************************************************)
(* Model of packages/db/src/internal.ts: the schema compiler               *)
(* (getCreateTableQuery, collectionToTable) and the routine that applies   *)
(* the compiled schema to a store (createDb, createDbTables).              *)
(*                                                                         *)
(* Strings are sequences of atoms.  Text that comes from the caller (a     *)
(* table name, a column name, a default value) is a sequence of            *)
(* one-character atoms; a literal fragment of the source (`CREATE TABLE `, *)
(* ` NOT NULL`, `, `) is one atom.  Concatenation is \o.                   *)
(*                                                                         *)
(* A JavaScript object (collections, collection.fields, columns) is the    *)
(* sequence of its [key, val] properties in insertion order; ObjectEntries *)
(* enumerates it the way Object.entries does.                              *)
(***************************************************************************)
EXTENDS Integers, Sequences, FiniteSets, TLC

(* ------------------------------ bounds --------------------------------- *)

\* most fields of a collection in the table-level inputs
MaxFields == 2

\* most collections handed to createDb in the store-level inputs
MaxCollections == 2

(* ------------------------- JavaScript strings -------------------------- *)

Digits == <<"0", "1", "2", "3", "4", "5", "6", "7", "8", "9">>

IsDigit(ch) == \E d \in 1..10 : Digits[d] = ch

DigitVal(ch) == (CHOOSE d \in 1..10 : Digits[d] = ch) - 1

RECURSIVE ToInt(_)
\* the numeric value of a string of decimal digits
ToInt(s) ==
  IF s = <<>> THEN 0
  ELSE 10 * ToInt(SubSeq(s, 1, Len(s) - 1)) + DigitVal(s[Len(s)])

RECURSIVE NatToStr(_)
NatToStr(n) ==
  IF n < 10 THEN <<Digits[n + 1]>>
  ELSE NatToStr(n \div 10) \o <<Digits[(n % 10) + 1]>>

\* `${n}` for an integer n
NumToStr(n) == IF n < 0 THEN <<"-">> \o NatToStr(0 - n) ELSE NatToStr(n)

\* digit strings of one length compared as numbers: a <= b
DigitsLeq(a, b) ==
  \/ a = b
  \/ \E p \in 1..Len(a) :
       /\ \A q \in 1..(p - 1) : a[q] = b[q]
       /\ DigitVal(a[p]) < DigitVal(b[p])

\* canonical decimal numerals compared as numbers: a <= b
NumeralLeq(a, b) == Len(a) < Len(b) \/ (Len(a) = Len(b) /\ DigitsLeq(a, b))

\* the greatest array index of ECMAScript, 2^32 - 2
MaxArrayIndex == <<"4", "2", "9", "4", "9", "6", "7", "2", "9", "4">>

\* a property key that Object.entries enumerates as an integer index:
\* the canonical decimal form of an integer in 0 .. 2^32 - 2
IsArrayIndex(key) ==
  /\ Len(key) > 0
  /\ \A p \in 1..Len(key) : IsDigit(key[p])
  /\ (Len(key) = 1 \/ key[1] # "0")
  /\ NumeralLeq(key, MaxArrayIndex)

RECURSIVE SelectSeqBy(_, _)
\* the properties of obj whose key is (want = TRUE) or is not an integer index
SelectSeqBy(obj, want) ==
  IF obj = <<>> THEN <<>>
  ELSE IF IsArrayIndex(Head(obj).key) = want
       THEN <<Head(obj)>> \o SelectSeqBy(Tail(obj), want)
       ELSE SelectSeqBy(Tail(obj), want)

RECURSIVE SortByIndex(_)
\* integer-keyed properties in ascending numeric order
SortByIndex(props) ==
  IF props = <<>> THEN <<>>
  ELSE LET m == CHOOSE p \in 1..Len(props) :
                  \A q \in 1..Len(props) : NumeralLeq(props[p].key, props[q].key)
           rest == [q \in 1..(Len(props) - 1) |->
                      IF q < m THEN props[q] ELSE props[q + 1]]
       IN  <<props[m]>> \o SortByIndex(rest)

\* Object.entries(obj): integer keys ascending, then the others in
\* insertion order
ObjectEntries(obj) == SortByIndex(SelectSeqBy(obj, TRUE)) \o SelectSeqBy(obj, FALSE)

HasKey(obj, key) == \E p \in 1..Len(obj) : obj[p].key = key

\* obj[key]
ObjGet(obj, key) == obj[CHOOSE p \in 1..Len(obj) : obj[p].key = key].val

\* obj[key] = val: an own property keeps its place, a new one is added last
ObjSet(obj, key, val) ==
  IF HasKey(obj, key)
  THEN [p \in 1..Len(obj) |-> IF obj[p].key = key THEN [key |-> key, val |-> val] ELSE obj[p]]
  ELSE Append(obj, [key |-> key, val |-> val])

(* --------------------------- JavaScript values ------------------------- *)

\* a value: k is its kind, s its text, n its number, b its truth value
Val(k, s, n, b) == [k |-> k, s |-> s, n |-> n, b |-> b]

Undefined == Val("undefined", <<>>, 0, FALSE)
Str(s) == Val("string", s, 0, FALSE)
Num(n) == Val("number", <<>>, n, FALSE)
Bool(b) == Val("boolean", <<>>, 0, b)
Null == Val("null", <<>>, 0, FALSE)
\* a non-finite number (Infinity, NaN)
NonFinite == Val("nonfinite", <<>>, 0, FALSE)
\* an object that references itself
Cyclic == Val("cyclic", <<>>, 0, FALSE)
\* a Date: n its UTC calendar day as YYYYMMDD, s its UTC time of day
DateVal(n, s) == Val("date", s, n, FALSE)
\* the drizzle sql`...` template
SqlExpr(s) == Val("sql", s, 0, FALSE)
\* a function evaluated by the query layer when a row is inserted
Thunk(s) == Val("function", s, 0, FALSE)

NOW == <<"n", "o", "w">>

\* results of a call: a value, a thrown error, or the end of the process
Ok(v) == [kind |-> "ok", value |-> v, field |-> <<>>, error |-> "none"]
Thrown(err, field) == [kind |-> "throw", value |-> <<>>, field |-> field, error |-> err]
\* console.info names the column, then process.exit(0)
Exited(field) == [kind |-> "exit", value |-> <<>>, field |-> field, error |-> "none"]

RECURSIVE QuoteJson(_)
\* the body of a JSON string: `"` and `\` are escaped
QuoteJson(s) ==
  IF s = <<>> THEN <<>>
  ELSE (IF Head(s) = "\"" THEN <<"\\", "\"">>
        ELSE IF Head(s) = "\\" THEN <<"\\", "\\">>
        ELSE <<Head(s)>>) \o QuoteJson(Tail(s))

\* JSON.stringify(v): a non-finite number becomes null, a cycle throws
JSONstringify(v) ==
  CASE v.k = "null" -> Ok(<<"n", "u", "l", "l">>)
    [] v.k = "nonfinite" -> Ok(<<"n", "u", "l", "l">>)
    [] v.k = "number" -> Ok(NumToStr(v.n))
    [] v.k = "boolean" -> Ok(IF v.b THEN <<"t", "r", "u", "e">> ELSE <<"f", "a", "l", "s", "e">>)
    [] v.k = "string" -> Ok(<<"\"">> \o QuoteJson(v.s) \o <<"\"">>)
    [] v.k = "cyclic" -> Thrown("TypeError", <<>>)

\* the ISO-8601 form Date.prototype.toISOString writes, YYYY-MM-DDTHH:mm:ss.sssZ
IsIsoDate(s) ==
  /\ Len(s) = 24
  /\ \A p \in {1, 2, 3, 4, 6, 7, 9, 10, 12, 13, 15, 16, 18, 19, 21, 22, 23} : IsDigit(s[p])
  /\ s[5] = "-" /\ s[8] = "-" /\ s[11] = "T"
  /\ s[14] = ":" /\ s[17] = ":" /\ s[20] = "." /\ s[24] = "Z"
  /\ ToInt(SubSeq(s, 6, 7)) \in 1..12
  /\ ToInt(SubSeq(s, 9, 10)) \in 1..31
  /\ ToInt(SubSeq(s, 12, 13)) <= 23
  /\ ToInt(SubSeq(s, 15, 16)) <= 59
  /\ ToInt(SubSeq(s, 18, 19)) <= 59

\* z.coerce.date().parse(s): new Date(s), refused when the date is invalid
ParseDate(s) ==
  IF IsIsoDate(s)
  THEN Ok(DateVal(ToInt(SubSeq(s, 1, 4)) * 10000 + ToInt(SubSeq(s, 6, 7)) * 100
                    + ToInt(SubSeq(s, 9, 10)),
                  SubSeq(s, 12, 23)))
  ELSE Thrown("ZodError", <<>>)

(* --------------------------- SQLite dialect ---------------------------- *)

\* sqlite.escapeName(name): the name between double quotes
escapeName(name) == <<"\"">> \o name \o <<"\"">>

RECURSIVE DoubleQuotes(_)
\* str.replace(/'/g, "''")
DoubleQuotes(s) ==
  IF s = <<>> THEN <<>>
  ELSE (IF Head(s) = "'" THEN <<"'", "'">> ELSE <<Head(s)>>) \o DoubleQuotes(Tail(s))

\* sqlite.escapeString(str)
escapeString(str) == <<"'">> \o DoubleQuotes(str) \o <<"'">>

(* ----------------------------- type mapper ----------------------------- *)

FieldType == {"text", "number", "boolean", "date", "json"}

\* the mapper with boolean stored as text
schemaTypeToSqlType_BoolText(type) ==
  CASE type \in {"date", "text", "json", "boolean"} -> <<"text">>
    [] type \in {"number"} -> <<"integer">>

schemaTypeToSqlType(type) ==
  CASE type \in {"date", "text", "json"} -> <<"text">>
    [] type \in {"number", "boolean"} -> <<"integer">>

\* a default that is falsy (0, false, '') counted as absent
hasDefault_Truthy(field) ==
  /\ field.default.k # "undefined"
  /\ ~(field.default.k = "number" /\ field.default.n = 0)
  /\ ~(field.default.k = "boolean" /\ ~field.default.b)
  /\ ~(field.default.k = "string" /\ field.default.s = <<>>)

hasDefault(field) == field.default.k # "undefined"

\* the literal with the date default 'now' quoted like any other string
getDefaultValueSql_NowLiteral(columnName, column) ==
  CASE column.type = "boolean" -> Ok(IF column.default.b THEN <<"TRUE">> ELSE <<"FALSE">>)
    [] column.type = "number" -> Ok(NumToStr(column.default.n))
    [] column.type = "text" -> Ok(escapeString(column.default.s))
    [] column.type = "date" -> Ok(escapeString(column.default.s))
    [] column.type = "json" ->
         LET stringified == JSONstringify(column.default)
         IN  IF stringified.kind = "throw" THEN Exited(columnName)
             ELSE Ok(escapeString(stringified.value))

getDefaultValueSql(columnName, column) ==
  CASE column.type = "boolean" -> Ok(IF column.default.b THEN <<"TRUE">> ELSE <<"FALSE">>)
    [] column.type = "number" -> Ok(NumToStr(column.default.n))
    [] column.type = "text" -> Ok(escapeString(column.default.s))
    [] column.type = "date" ->
         Ok(IF column.default.s = NOW THEN <<"CURRENT_TIMESTAMP">>
            ELSE escapeString(column.default.s))
    [] column.type = "json" ->
         LET stringified == JSONstringify(column.default)
         IN  IF stringified.kind = "throw" THEN Exited(columnName)
             ELSE Ok(escapeString(stringified.value))

(* ---------------------------- DDL generation --------------------------- *)

getModifiers(columnName, column) ==
  LET m1 == IF ~column.optional THEN <<" NOT NULL">> ELSE <<>>
      m2 == m1 \o (IF column.unique THEN <<" UNIQUE">> ELSE <<>>)
  IN  IF hasDefault(column)
      THEN LET d == getDefaultValueSql(columnName, column)
           IN  IF d.kind = "ok" THEN Ok(m2 \o <<" DEFAULT ">> \o d.value) ELSE d
      ELSE Ok(m2)

RECURSIVE Join(_, _)
\* parts.join(sep)
Join(parts, sep) ==
  IF parts = <<>> THEN <<>>
  ELSE IF Len(parts) = 1 THEN parts[1]
  ELSE parts[1] \o sep \o Join(Tail(parts), sep)

RECURSIVE ColQueries(_, _)
\* the loop over Object.entries(collection.fields): colQueries after the
\* entries are pushed, or the end of the process at the first bad default
ColQueries(colQueries, entries) ==
  IF entries = <<>> THEN Ok(colQueries)
  ELSE LET columnName == Head(entries).key
           column == Head(entries).val
           modifiers == getModifiers(columnName, column)
       IN  IF modifiers.kind = "ok"
           THEN ColQueries(Append(colQueries,
                                  escapeName(columnName) \o <<" ">>
                                    \o schemaTypeToSqlType(column.type)
                                    \o modifiers.value),
                           Tail(entries))
           ELSE modifiers

getCreateTableQuery(collectionName, collection) ==
  LET query == <<"CREATE TABLE ">> \o escapeName(collectionName) \o <<" (">>
      colQueries == ColQueries(<< <<"\"id\" text PRIMARY KEY">> >>,
                               ObjectEntries(collection.fields))
  IN  IF colQueries.kind = "ok"
      THEN Ok(query \o Join(colQueries.value, <<", ">>) \o <<")">>)
      ELSE colQueries

(* ------------------------ column-model generation ---------------------- *)

\* length of the identifier generateId asks nanoid for
IdLength == 12

\* generateId, run by the query layer for a row inserted without an id
GenerateId == Thunk(<<"nanoid">> \o NumToStr(IdLength))

\* a drizzle column builder: kind is the builder (text, integer, boolean,
\* jsonType, dateType), dataType the SQL type it declares
Column(name, kind, dataType) ==
  [name |-> name, kind |-> kind, dataType |-> dataType, primaryKey |-> FALSE,
   notNull |-> FALSE, isUnique |-> FALSE, hasDefault |-> FALSE, default |-> Undefined]

text(name) == Column(name, "text", <<"text">>)
integer(name) == Column(name, "integer", <<"integer">>)
integerBoolean(name) == Column(name, "boolean", <<"integer">>)
jsonType(name) == Column(name, "jsonType", <<"text">>)
dateType(name) == Column(name, "dateType", <<"text">>)

WithDefault(c, v) == [c EXCEPT !.hasDefault = TRUE, !.default = v]
WithNotNull(c) == [c EXCEPT !.notNull = TRUE]
WithUnique(c) == [c EXCEPT !.isUnique = TRUE]
WithPrimaryKey(c) == [c EXCEPT !.primaryKey = TRUE, !.notNull = TRUE]

CURRENT_TIMESTAMP == SqlExpr(<<"CURRENT_TIMESTAMP">>)

\* the module-level initialColumns as the module is loaded
InitialColumns0 ==
  << [key |-> <<"i", "d">>,
      val |-> WithDefault(WithPrimaryKey(text(<<"i", "d">>)), GenerateId)] >>

columnMapper(fieldName, field, isJsonSerializable) ==
  LET defined == field.default.k # "undefined"
      finish(c) == LET c1 == IF ~field.optional THEN WithNotNull(c) ELSE c
                   IN  Ok(IF field.unique THEN WithUnique(c1) ELSE c1)
  IN  CASE field.type = "text" ->
             finish(IF defined THEN WithDefault(text(fieldName), field.default)
                    ELSE text(fieldName))
        [] field.type = "number" ->
             finish(IF defined THEN WithDefault(integer(fieldName), field.default)
                    ELSE integer(fieldName))
        [] field.type = "boolean" ->
             finish(IF defined THEN WithDefault(integerBoolean(fieldName), field.default)
                    ELSE integerBoolean(fieldName))
        [] field.type = "json" ->
             finish(IF defined THEN WithDefault(jsonType(fieldName), field.default)
                    ELSE jsonType(fieldName))
        [] field.type = "date" ->
             IF isJsonSerializable
             THEN finish(IF defined
                         THEN WithDefault(text(fieldName),
                                          IF field.default.s = NOW THEN CURRENT_TIMESTAMP
                                          ELSE field.default)
                         ELSE text(fieldName))
             ELSE IF ~defined THEN finish(dateType(fieldName))
             ELSE IF field.default.s = NOW
                  THEN finish(WithDefault(dateType(fieldName), CURRENT_TIMESTAMP))
             ELSE LET parsed == ParseDate(field.default.s)
                  IN  IF parsed.kind = "ok"
                      THEN finish(WithDefault(dateType(fieldName), parsed.value))
                      ELSE parsed

RECURSIVE MapColumns(_, _, _)
\* the loop over Object.entries(collection.fields) of collectionToTable
MapColumns(columns, entries, isJsonSerializable) ==
  IF entries = <<>> THEN Ok(columns)
  ELSE LET c == columnMapper(Head(entries).key, Head(entries).val, isJsonSerializable)
       IN  IF c.kind = "ok"
           THEN MapColumns(ObjSet(columns, Head(entries).key, c.value),
                           Tail(entries), isJsonSerializable)
           ELSE c

sqliteTable(name, columns) == [name |-> name, columns |-> columns]

\* collectionToTable writing the fields into initialColumns itself
collectionToTable_NoSpread(ic, name, collection, isJsonSerializable) ==
  LET columns == MapColumns(ic, ObjectEntries(collection.fields), isJsonSerializable)
  IN  IF columns.kind = "ok"
      THEN [result |-> Ok(sqliteTable(name, columns.value)), initialColumns |-> columns.value]
      ELSE [result |-> columns, initialColumns |-> ic]

\* collectionToTable run with the module's initialColumns being ic: what it
\* returns and what initialColumns is afterwards
collectionToTable(ic, name, collection, isJsonSerializable) ==
  LET columns == MapColumns(ic, ObjectEntries(collection.fields), isJsonSerializable)
  IN  IF columns.kind = "ok"
      THEN [result |-> Ok(sqliteTable(name, columns.value)), initialColumns |-> ic]
      ELSE [result |-> columns, initialColumns |-> ic]

(* ------------------------- applying the schema ------------------------- *)

\* the two statements pushed for one collection, CREATE first
SetupQueriesFor_CreateFirst(name, createQuery) ==
  << [kind |-> "CREATE", table |-> name, text |-> createQuery],
     [kind |-> "DROP", table |-> name, text |-> <<"DROP TABLE IF EXISTS ">> \o name] >>

\* setupQueries.push(dropQuery, createQuery); kind and table record which
\* statement of which collection the text is
SetupQueriesFor(name, createQuery) ==
  << [kind |-> "DROP", table |-> name, text |-> <<"DROP TABLE IF EXISTS ">> \o name],
     [kind |-> "CREATE", table |-> name, text |-> createQuery] >>

\* one loop that runs the statements of a collection as soon as they are built
NextPhase_Eager(compiled, total, started, queued) ==
  IF started < queued THEN "run"
  ELSE IF compiled < total THEN "compile"
  ELSE "done"

\* what createDbTables does next: compiled of total collections are
\* compiled, started of queued statements have been handed to db.run
NextPhase(compiled, total, started, queued) ==
  IF compiled < total THEN "compile"
  ELSE IF started < queued THEN "run"
  ELSE "done"

(* -------------------------------- inputs ------------------------------- *)

Field(type, optional, unique, default) ==
  [type |-> type, optional |-> optional, unique |-> unique, default |-> default]

IsoDefault ==
  <<"2", "0", "2", "4", "-", "0", "2", "-", "2", "9", "T",
    "1", "2", ":", "3", "0", ":", "0", "0", ".", "0", "0", "0", "Z">>

\* the defaults a field of each type is declared with
DefaultsOf(type) ==
  CASE type = "text" -> {Undefined, Str(NOW), Str(<<"o", "'">>)}
    [] type = "number" -> {Undefined, Num(0), Num(0 - 12)}
    [] type = "boolean" -> {Undefined, Bool(TRUE), Bool(FALSE)}
    [] type = "date" -> {Undefined, Str(NOW), Str(IsoDefault)}
    [] type = "json" -> {Undefined, Null, Str(<<"a", "\"">>), NonFinite, Cyclic}

FieldDefs ==
  UNION {{Field(ty, o, u, d) : o \in BOOLEAN, u \in BOOLEAN, d \in DefaultsOf(ty)} :
         ty \in FieldType}

FieldNames == {<<"2">>, <<"1">>, <<"i", "d">>, <<"a", "\"">>}

TableNames == {<<"2">>, <<"1">>, <<"p">>}

\* the field definitions of the table-level inputs
CoreFieldDefs ==
  {Field("text", FALSE, FALSE, Undefined),
   Field("number", TRUE, TRUE, Num(0)),
   Field("date", FALSE, FALSE, Str(NOW)),
   Field("json", TRUE, FALSE, Cyclic)}

\* the sequences over S of length at most n
SeqsUpTo(S, n) == UNION {[1..m -> S] : m \in 0..n}

\* objects with at most n properties, keys from K, values from V
Objects(K, V, n) ==
  {obj \in SeqsUpTo([key : K, val : V], n) :
     \A p, q \in 1..Len(obj) : p # q => obj[p].key # obj[q].key}

Collection(fields) == [fields |-> fields]

\* one collection with one field, over every field definition
FieldConfigs ==
  {<< [key |-> <<"t">>, val |-> Collection(<< [key |-> n, val |-> f] >>)] >> :
     n \in FieldNames, f \in FieldDefs}

\* one collection with up to MaxFields fields
TableConfigs ==
  {<< [key |-> <<"t">>, val |-> Collection(fields)] >> :
     fields \in Objects(FieldNames, CoreFieldDefs, MaxFields)}

\* up to MaxCollections collections of at most one field
DbConfigs ==
  Objects(TableNames,
          {Collection(<<>>),
           Collection(<< [key |-> <<"a">>, val |-> Field("text", FALSE, FALSE, Undefined)] >>),
           Collection(<< [key |-> <<"a">>, val |-> Field("json", TRUE, FALSE, Cyclic)] >>)},
          MaxCollections)

PostsFields ==
  << [key |-> <<"t", "i", "t", "l", "e">>, val |-> Field("text", FALSE, FALSE, Undefined)],
     [key |-> <<"v", "i", "e", "w", "s">>, val |-> Field("number", FALSE, FALSE, Num(0))],
     [key |-> <<"p", "u", "b", "l", "i", "s", "h", "e", "d">>,
      val |-> Field("boolean", TRUE, FALSE, Undefined)],
     [key |-> <<"c", "r", "e", "a", "t", "e", "d", "A", "t">>,
      val |-> Field("date", FALSE, FALSE, Str(NOW))] >>

PostsConfig == << [key |-> <<"p", "o", "s", "t", "s">>, val |-> Collection(PostsFields)] >>

Configs == FieldConfigs \cup TableConfigs \cup DbConfigs \cup {PostsConfig}

(* -------------------------------- state -------------------------------- *)

VARIABLES
  collections,     \* the DBCollections the callers hold
  initialColumns,  \* the module-level initialColumns
  proc,            \* "running", or "exited" after process.exit
  ddl,             \* the latest call of getCreateTableQuery and its result
  tbl,             \* the latest call of collectionToTable and its result
  pc,              \* where createDb is
  createTables,    \* the createTables argument of createDb
  compiled,        \* collections createDbTables has compiled
  setupQueries,    \* setupQueries of createDbTables
  started,         \* statements of setupQueries handed to db.run
  ran,             \* the statements db.run was called with, in order
  inflight         \* statements db.run has not settled yet

vars == <<collections, initialColumns, proc, ddl, tbl, pc, createTables,
          compiled, setupQueries, started, ran, inflight>>

NoCall == [at |-> 0, mode |-> TRUE, result |-> Ok(<<>>)]

Init ==
  /\ collections \in Configs
  /\ initialColumns = InitialColumns0
  /\ proc = "running"
  /\ ddl = NoCall
  /\ tbl = NoCall
  /\ pc = "idle"
  /\ createTables = FALSE
  /\ compiled = 0
  /\ setupQueries = <<>>
  /\ started = 0
  /\ ran = <<>>
  /\ inflight = {}

dbVars == <<pc, createTables, compiled, setupQueries, started, ran, inflight>>

\* createDb is not in the middle of a synchronous stretch
Idle == pc \in {"idle", "await", "done", "rejected"}

\* a caller compiles the DDL of its at-th collection
CallGetCreateTableQuery(at) ==
  /\ proc = "running" /\ Idle
  /\ LET r == getCreateTableQuery(collections[at].key, collections[at].val)
     IN  /\ ddl' = [at |-> at, mode |-> TRUE, result |-> r]
         /\ proc' = IF r.kind = "exit" THEN "exited" ELSE proc
  /\ UNCHANGED <<collections, initialColumns, tbl, dbVars>>

\* a caller builds the column model of its at-th collection
CallCollectionToTable(at, isJsonSerializable) ==
  /\ proc = "running" /\ Idle
  /\ LET r == collectionToTable(initialColumns, collections[at].key,
                                collections[at].val, isJsonSerializable)
     IN  /\ tbl' = [at |-> at, mode |-> isJsonSerializable, result |-> r.result]
         /\ initialColumns' = r.initialColumns
  /\ UNCHANGED <<collections, proc, ddl, dbVars>>

\* createDb up to the call of createDbTables
CreateDb(ct) ==
  /\ proc = "running" /\ pc = "idle"
  /\ createTables' = ct
  /\ pc' = IF ct THEN "loop" ELSE "done"
  /\ UNCHANGED <<collections, initialColumns, proc, ddl, tbl,
                 compiled, setupQueries, started, ran, inflight>>

Phase == NextPhase(compiled, Len(collections), started, Len(setupQueries))

\* one turn of the loop over Object.entries(collections)
CompileNext ==
  /\ proc = "running" /\ pc = "loop" /\ Phase = "compile"
  /\ LET entry == ObjectEntries(collections)[compiled + 1]
         r == getCreateTableQuery(entry.key, entry.val)
     IN  IF r.kind = "ok"
         THEN /\ setupQueries' = setupQueries \o SetupQueriesFor(entry.key, r.value)
              /\ compiled' = compiled + 1
              /\ UNCHANGED <<pc, proc>>
         ELSE /\ pc' = "failed"
              /\ proc' = "exited"
              /\ UNCHANGED <<setupQueries, compiled>>
  /\ UNCHANGED <<collections, initialColumns, ddl, tbl, createTables, started, ran, inflight>>

\* db.run(q) is called with the next statement
RunStart ==
  /\ proc = "running" /\ pc = "loop" /\ Phase = "run"
  /\ ran' = Append(ran, setupQueries[started + 1])
  /\ inflight' = inflight \cup {started + 1}
  /\ started' = started + 1
  /\ pc' = "await"
  /\ UNCHANGED <<collections, initialColumns, proc, ddl, tbl, createTables,
                 compiled, setupQueries>>

\* the store ran the statement
RunResolve ==
  /\ proc = "running" /\ pc = "await"
  /\ inflight' = inflight \ {started}
  /\ pc' = "loop"
  /\ UNCHANGED <<collections, initialColumns, proc, ddl, tbl, createTables,
                 compiled, setupQueries, started, ran>>

\* the store refused the statement: createDb rejects
RunReject ==
  /\ proc = "running" /\ pc = "await"
  /\ inflight' = inflight \ {started}
  /\ pc' = "rejected"
  /\ UNCHANGED <<collections, initialColumns, proc, ddl, tbl, createTables,
                 compiled, setupQueries, started, ran>>

\* createDbTables is through; createDb returns db
Return ==
  /\ proc = "running" /\ pc = "loop" /\ Phase = "done"
  /\ pc' = "done"
  /\ UNCHANGED <<collections, initialColumns, proc, ddl, tbl, createTables,
                 compiled, setupQueries, started, ran, inflight>>

Next ==
  \/ \E at \in 1..Len(collections) : CallGetCreateTableQuery(at)
  \/ \E at \in 1..Len(collections), m \in BOOLEAN : CallCollectionToTable(at, m)
  \/ \E ct \in BOOLEAN : CreateDb(ct)
  \/ CompileNext
  \/ RunStart
  \/ RunResolve
  \/ RunReject
  \/ Return

Spec == Init /\ [][Next]_vars

(* ------------------------- reading the outputs ------------------------- *)

IsPrefix(a, b) == Len(a) <= Len(b) /\ SubSeq(b, 1, Len(a)) = a

Atoms(s) == {s[p] : p \in 1..Len(s)}

\* the first place of atom in s
FirstOf(s, atom) == CHOOSE p \in 1..Len(s) : s[p] = atom /\ \A q \in 1..(p - 1) : s[q] # atom

RECURSIVE SplitOn(_, _)
\* the pieces of s between occurrences of the atom sep
SplitOn(s, sep) ==
  IF sep \notin Atoms(s) THEN <<s>>
  ELSE LET p == FirstOf(s, sep)
       IN  <<SubSeq(s, 1, p - 1)>> \o SplitOn(SubSeq(s, p + 1, Len(s)), sep)

\* the column clauses of a CREATE TABLE statement
Clauses(query) ==
  SplitOn(SubSeq(query, FirstOf(query, " (") + 1, Len(query) - 1), ", ")

RECURSIVE ExpectedRuns(_)
\* DROP then CREATE for each entry, in the order of entries
ExpectedRuns(entries) ==
  IF entries = <<>> THEN <<>>
  ELSE << <<"DROP", Head(entries).key>>, <<"CREATE", Head(entries).key>> >>
         \o ExpectedRuns(Tail(entries))

\* which statement of which table each call of db.run was given
Ran == [p \in 1..Len(ran) |-> <<ran[p].kind, ran[p].table>>]

DdlOk == ddl.at > 0 /\ ddl.result.kind = "ok"
TblOk == tbl.at > 0 /\ tbl.result.kind = "ok"
DdlFields == collections[ddl.at].val.fields
TblFields == collections[tbl.at].val.fields

\* the clause of the latest DDL that Object.entries order gives to key
ClauseOf(key) ==
  LET entries == ObjectEntries(DdlFields)
  IN  Clauses(ddl.result.value)[1 + (CHOOSE p \in 1..Len(entries) : entries[p].key = key)]

\* what follows `"<key>" <type>` in that clause
ModifiersOf(key) == SubSeq(ClauseOf(key), Len(key) + 5, Len(ClauseOf(key)))

\* what follows ` DEFAULT ` in that clause
LiteralOf(key) ==
  LET m == ModifiersOf(key)
  IN  SubSeq(m, FirstOf(m, " DEFAULT ") + 1, Len(m))

ModifierAtoms == {" NOT NULL", " UNIQUE", " DEFAULT "}

IdClause == <<"\"id\" text PRIMARY KEY">>

BadJsonDefault(field) ==
  field.type = "json" /\ field.default.k \in {"cyclic", "nonfinite"}

(* -------------------------------- claims ------------------------------- *)

\* C1: getCreateTableQuery on a collection with a json field whose default
\* is not JSON-serializable throws a SerializationError that names such a
\* field; it returns no DDL and does not end the process.
C1_SerializationError ==
  (ddl.at > 0 /\ \E p \in 1..Len(DdlFields) : BadJsonDefault(DdlFields[p].val))
    => /\ ddl.result.kind = "throw"
       /\ ddl.result.error = "SerializationError"
       /\ \E p \in 1..Len(DdlFields) :
            BadJsonDefault(DdlFields[p].val) /\ ddl.result.field = DdlFields[p].key

\* C2: once the compilation of a collection has failed inside
\* createDbTables, no statement has been handed to the store, then or later.
C2_NoPartialSchema == pc = "failed" => (ran = <<>> /\ inflight = {})

\* the second collection fails after the statements of the first were built
C2_Witness == pc = "failed" /\ Len(setupQueries) > 0

\* C3 as amended: with createTables the store is given DROP then CREATE of
\* each collection, one statement at a time, the collections in
\* Object.entries order, each statement once by the time createDb returns;
\* without createTables it is given nothing.
C3_DropThenCreateInEntriesOrder ==
  /\ Cardinality(inflight) <= 1
  /\ IsPrefix(Ran, ExpectedRuns(ObjectEntries(collections)))
  /\ ~createTables => ran = <<>>
  /\ (pc = "done" /\ createTables) => Ran = ExpectedRuns(ObjectEntries(collections))

\* createDb returned after two collections that Object.entries reorders
C3_Witness ==
  /\ pc = "done" /\ createTables /\ Len(ran) = 4
  /\ ObjectEntries(collections) # collections

\* C3 as stated: the same, the collections in the order they were declared
C3_DeclaredOrder ==
  /\ Cardinality(inflight) <= 1
  /\ IsPrefix(Ran, ExpectedRuns(collections))
  /\ ~createTables => ran = <<>>
  /\ (pc = "done" /\ createTables) => Ran = ExpectedRuns(collections)

\* C4: every statement createDbTables builds names its table through
\* escapeName, the DROP as well as the CREATE.
C4_NamesQuoted ==
  \A p \in 1..Len(setupQueries) :
    LET q == setupQueries[p]
    IN  /\ q.kind = "DROP" => q.text = <<"DROP TABLE IF EXISTS ">> \o escapeName(q.table)
        /\ q.kind = "CREATE" =>
             IsPrefix(<<"CREATE TABLE ">> \o escapeName(q.table) \o <<" (">>, q.text)

\* C5: the DDL of a collection of n fields is CREATE TABLE <name> ( ... )
\* around n+1 clauses joined by `, `: the id clause, then one clause per
\* field in the order the fields were declared.
C5_ClausesInDeclaredOrder ==
  DdlOk =>
    LET clauses == Clauses(ddl.result.value)
    IN  /\ Len(clauses) = Len(DdlFields) + 1
        /\ clauses[1] = IdClause
        /\ \A p \in 1..Len(DdlFields) :
             IsPrefix(escapeName(DdlFields[p].key) \o <<" ">>, clauses[p + 1])
        /\ ddl.result.value =
             <<"CREATE TABLE ">> \o escapeName(collections[ddl.at].key) \o <<" (">>
               \o Join(clauses, <<", ">>) \o <<")">>

PostsDDL ==
  <<"CREATE TABLE ", "\"", "p", "o", "s", "t", "s", "\"", " (",
    "\"id\" text PRIMARY KEY", ", ",
    "\"", "t", "i", "t", "l", "e", "\"", " ", "text", " NOT NULL", ", ",
    "\"", "v", "i", "e", "w", "s", "\"", " ", "integer", " NOT NULL", " DEFAULT ", "0", ", ",
    "\"", "p", "u", "b", "l", "i", "s", "h", "e", "d", "\"", " ", "integer", ", ",
    "\"", "c", "r", "e", "a", "t", "e", "d", "A", "t", "\"", " ", "text", " NOT NULL",
    " DEFAULT ", "CURRENT_TIMESTAMP", ")">>

\* C6: in the DDL the modifiers of a field's clause are ` NOT NULL` iff the
\* field is not optional, then ` UNIQUE` iff it is unique, then
\* ` DEFAULT <literal>` iff it has a default, and nothing else; the posts
\* collection compiles to the statement of the scenario.
C6_ModifiersInOrder ==
  DdlOk =>
    /\ \A p \in 1..Len(DdlFields) :
         LET f == DdlFields[p].val
             m == ModifiersOf(DdlFields[p].key)
             pre == (IF f.optional THEN <<>> ELSE <<" NOT NULL">>)
                      \o (IF f.unique THEN <<" UNIQUE">> ELSE <<>>)
         IN  /\ IsPrefix(pre, m)
             /\ f.default.k = "undefined" => m = pre
             /\ f.default.k # "undefined" =>
                  /\ Len(m) > Len(pre) + 1
                  /\ m[Len(pre) + 1] = " DEFAULT "
                  /\ \A q \in (Len(pre) + 2)..Len(m) : m[q] \notin ModifierAtoms
    /\ collections = PostsConfig => ddl.result.value = PostsDDL

\* the posts collection has been compiled
C6_Witness == DdlOk /\ collections = PostsConfig

\* C7: the date default 'now' is CURRENT_TIMESTAMP in the DDL and in the
\* column model of both modes; another date default is the quoted string in
\* the DDL, the string in serializable mode and the parsed Date otherwise;
\* 'now' on a text field is a string.
C7_NowIsCurrentTimestamp ==
  /\ DdlOk =>
       \A p \in 1..Len(DdlFields) :
         LET f == DdlFields[p].val
             key == DdlFields[p].key
         IN  /\ (f.type = "date" /\ f.default.k = "string" /\ f.default.s = NOW)
                  => LiteralOf(key) = <<"CURRENT_TIMESTAMP">>
             /\ (f.type = "date" /\ f.default.k = "string" /\ f.default.s # NOW)
                  => LiteralOf(key) = <<"'">> \o f.default.s \o <<"'">>
             /\ (f.type = "text" /\ f.default.k = "string" /\ f.default.s = NOW)
                  => LiteralOf(key) = <<"'", "n", "o", "w", "'">>
  /\ TblOk =>
       \A p \in 1..Len(TblFields) :
         LET f == TblFields[p].val
             col == ObjGet(tbl.result.value.columns, TblFields[p].key)
         IN  /\ (f.type = "date" /\ f.default.k = "string" /\ f.default.s = NOW)
                  => (col.hasDefault /\ col.default.k = "sql"
                      /\ col.default.s = <<"CURRENT_TIMESTAMP">>)
             /\ (f.type = "date" /\ f.default.k = "string" /\ f.default.s # NOW)
                  => /\ col.hasDefault
                     /\ tbl.mode => (col.default.k = "string" /\ col.default.s = f.default.s)
                     /\ ~tbl.mode =>
                          /\ col.default.k = "date"
                          /\ col.default.n = 20240229
                          /\ col.default.s =
                               <<"1", "2", ":", "3", "0", ":", "0", "0", ".", "0", "0", "0">>
             /\ (f.type = "text" /\ f.default.k = "string" /\ f.default.s = NOW)
                  => (col.hasDefault /\ col.default.k = "string" /\ col.default.s = NOW)

\* a date field defaulting to 'now' has gone through the DDL and through
\* the column model in non-serializable mode
C7_Witness ==
  /\ DdlOk /\ TblOk /\ ~tbl.mode /\ ddl.at = tbl.at
  /\ \E p \in 1..Len(TblFields) :
       TblFields[p].val.type = "date" /\ TblFields[p].val.default = Str(NOW)

\* C8: the column model has the implicit id column under id and one entry
\* per declared field besides it.
C8_ImplicitId ==
  TblOk =>
    LET columns == tbl.result.value.columns
    IN  /\ HasKey(columns, <<"i", "d">>)
        /\ ObjGet(columns, <<"i", "d">>).primaryKey
        /\ ObjGet(columns, <<"i", "d">>).dataType = <<"text">>
        /\ ObjGet(columns, <<"i", "d">>).default = GenerateId
        /\ Len(columns) = Len(TblFields) + 1

\* C9: whatever was compiled before, initialColumns is the single id column,
\* the column model of a collection is the one a freshly loaded module
\* builds, and no call changes the collections.
C9_Stateless ==
  /\ [](/\ initialColumns = InitialColumns0
        /\ tbl.at > 0 =>
             tbl.result = collectionToTable(InitialColumns0, collections[tbl.at].key,
                                            collections[tbl.at].val, tbl.mode).result)
  /\ [][collections' = collections]_vars

\* both compilers have run on a collection with a field of its own
C9_Witness ==
  /\ DdlOk /\ TblOk
  /\ \E p \in 1..Len(TblFields) : TblFields[p].key # <<"i", "d">>

\* C10: for each field the column of the column model, in either mode, has
\* the storage type of the DDL clause (text for text, date and json, integer
\* for number and boolean) and is NOT NULL, UNIQUE and defaulted exactly
\* when the clause is.
C10_ColumnsAgree ==
  (DdlOk /\ TblOk /\ ddl.at = tbl.at) =>
    \A p \in 1..Len(TblFields) :
      LET f == TblFields[p].val
          key == TblFields[p].key
          col == ObjGet(tbl.result.value.columns, key)
          m == Atoms(ModifiersOf(key))
      IN  /\ col.dataType = <<ClauseOf(key)[Len(key) + 4]>>
          /\ col.dataType = (IF f.type \in {"text", "date", "json"}
                             THEN <<"text">> ELSE <<"integer">>)
          /\ col.notNull <=> " NOT NULL" \in m
          /\ col.isUnique <=> " UNIQUE" \in m
          /\ col.hasDefault <=> " DEFAULT " \in m

\* a boolean field has gone through both compilers, the column model in
\* non-serializable mode
C10_Witness ==
  /\ DdlOk /\ TblOk /\ ddl.at = tbl.at /\ ~tbl.mode
  /\ \E p \in 1..Len(TblFields) : TblFields[p].val.type = "boolean"

====
